---- MODULE Spec2Model ----
(***************************************************************************)
(* A model of license-bill-of-materials (license-bill-of-materials.go).    *)
(*                                                                         *)
(* Data representation                                                     *)
(*  - A string that the program takes apart (an import path, a license     *)
(*    path) is a sequence of symbols; "/" is the separator symbol and the  *)
(*    other symbols ("a", "vendor", "LICENSE", ...) stand for runs of      *)
(*    characters that contain no "/".                                      *)
(*  - A license text is a sequence of raw tokens: words as they are spelt  *)
(*    in the file, a copyright notice ("Copyright 2013"), and the line     *)
(*    break "\n".                                                          *)
(*  - A float64 is a fraction [num, den] in lowest terms; NaN is the       *)
(*    float64 NaN that 0/0 yields.                                         *)
(*  - A *Template is the position of the template in the corpus, 0 is nil. *)
(***************************************************************************)
EXTENDS Integers, Sequences, FiniteSets, TLC

VARIABLES
    pc,          \* position of the run
    assets,      \* assets.Assets: the embedded template documents
    templates,   \* the templates loaded so far (loadTemplates)
    sample,      \* the license text handed to matchTemplates
    result,      \* the MatchResult returned by matchTemplates
    licenses,    \* a []License: the argument of longestCommonPrefix and of
                 \* groupLicenses, the result of listLicenses
    prefix,      \* the string returned by longestCommonPrefix
    kept,        \* the []License returned by groupLicenses
    groupErr,    \* whether groupLicenses returned an error
    infos,       \* the []*PkgInfo of getPackagesInfo (listLicenses)
    tree,        \* the source tree under Root/src: directory -> its entries
    overrides,   \* the override document, as json.Unmarshal reads it
    pos,         \* listLicenses: index of the next package of infos
    matched,     \* listLicenses: the cache, file path -> MatchResult
    matchCalls,  \* the file paths handed to matchTemplates, in call order
    found,       \* the ([]string, error) returned by findLicenses
    cpos,        \* licensesToProjectAndLicenses: index of the next License
    c,           \* licensesToProjectAndLicenses: the confident list
    e,           \* licensesToProjectAndLicenses: the error list
    pls,         \* pkgsToLicenses: the final confident list
    ne           \* pkgsToLicenses: the final error list

matchVars == <<sample, result>>
groupVars == <<prefix, kept, groupErr>>
inputVars == <<infos, tree, overrides>>
listVars == <<pos, matched, matchCalls, found>>
outVars == <<cpos, c, e, pls, ne>>
runVars == <<inputVars, listVars, outVars>>

vars == <<pc, assets, templates, licenses, matchVars, groupVars, runVars>>

----------------------------------------------------------------------------
(* Helpers *)

Range(s) == {s[i] : i \in DOMAIN s}

SeqsUpTo(S, n) == UNION {[1..k -> S] : k \in 0..n}

RECURSIVE Gcd(_, _)
Gcd(a, b) == IF b = 0 THEN a ELSE Gcd(b, a % b)

Abs(x) == IF x < 0 THEN -x ELSE x

\* The value of found before findLicenses has returned.
NotSearched == [paths |-> <<>>, err |-> FALSE]

\* The variables of a run of pkgsToLicenses, where no run is modelled.
RunIdle ==
    /\ infos = <<>>
    /\ tree = <<>>
    /\ overrides = <<>>
    /\ pos = 0
    /\ matched = <<>>
    /\ matchCalls = <<>>
    /\ found = NotSearched
    /\ cpos = 0
    /\ c = <<>>
    /\ e = <<>>
    /\ pls = <<>>
    /\ ne = <<>>

----------------------------------------------------------------------------
(* float64 *)

NaN == [num |-> 0, den |-> 0]

\* The float64 value n/d for integers n and d > 0.
Frac(n, d) ==
    LET g == Gcd(Abs(n), d)
    IN  [num |-> n \div g, den |-> d \div g]

\* float64 division of two non-negative integers-as-floats: 0/0 is NaN.
\* (n/0 with n > 0 is +Inf; matchTemplates never divides a positive count by
\* zero, since common <= len(words).)
FloatDiv(n, d) == IF d = 0 THEN NaN ELSE Frac(n, d)

\* x > y on float64: every comparison with NaN is false.
FloatGreater(x, y) ==
    IF x = NaN \/ y = NaN THEN FALSE
    ELSE x.num * y.den > y.num * x.den

Zero == Frac(0, 1)
One == Frac(1, 1)
MinusOne == Frac(-1, 1)

----------------------------------------------------------------------------
(* Text normalisation: cleanLicenseData, makeWordSet *)

Notice == "Copyright 2013"
Newline == "\n"

\* bytes.ToLower on one raw token.
ToLower(tok) ==
    CASE tok = "MIT" -> "mit"
      [] tok = "The" -> "the"
      [] tok = "Copyright 2013" -> "copyright 2013"
      [] OTHER -> tok

\* reCopyright is case-insensitive: it matches the notice in either case.
IsNotice(tok) == tok \in {"Copyright 2013", "copyright 2013"}

\* reCopyright.ReplaceAll(data, nil): the notice and the rest of its line
\* (".*" stops at the line break) are removed.
RECURSIVE StripCopyright(_, _)
StripCopyright(data, inNotice) ==
    IF data = <<>> THEN <<>>
    ELSE LET tok == Head(data)
         IN  IF tok = Newline
                THEN <<tok>> \o StripCopyright(Tail(data), FALSE)
             ELSE IF inNotice \/ IsNotice(tok)
                THEN StripCopyright(Tail(data), TRUE)
             ELSE <<tok>> \o StripCopyright(Tail(data), FALSE)

cleanLicenseData(data) ==
    StripCopyright([i \in DOMAIN data |-> ToLower(data[i])], FALSE)

\* reWords.FindAll(data, -1): the word tokens, in order.
FindAllWords(data) == SelectSeq(data, LAMBDA tok : tok # Newline)

\* makeWordSet: word -> index of its first occurrence among the matches
\* (indices start at 0).
makeWordSet(data) ==
    LET matches == FindAllWords(cleanLicenseData(data))
    IN  [w \in Range(matches) |->
            (CHOOSE i \in DOMAIN matches :
                /\ matches[i] = w
                /\ \A j \in DOMAIN matches : matches[j] = w => i <= j) - 1]

----------------------------------------------------------------------------
(* Templates: parseTemplate, loadTemplates *)

\* An asset is modelled by what parseTemplate extracts from it: the title and
\* nickname of its front matter and the body after the second "---" line.
parseTemplate(content) ==
    [Title    |-> content.Title,
     Nickname |-> content.Nickname,
     Words    |-> makeWordSet(content.Body)]

----------------------------------------------------------------------------
(* Matching: sortAndReturnWords, matchTemplates *)

\* sort.Sort(sortedWords(words)) orders by Pos (Less: s[i].Pos < s[j].Pos).
\* The slice arrives in map iteration order, so it is modelled as a set; the
\* positions of one word set are pairwise distinct, so the sorted order is
\* unique.

\* (Less with the comparison turned round.)
RECURSIVE SortByPosReversed(_)
SortByPosReversed(words) ==
    IF words = {} THEN <<>>
    ELSE LET w == CHOOSE x \in words : \A y \in words : x.Pos >= y.Pos
         IN  <<w>> \o SortByPosReversed(words \ {w})

RECURSIVE SortByPos(_)
SortByPos(words) ==
    IF words = {} THEN <<>>
    ELSE LET w == CHOOSE x \in words : \A y \in words : x.Pos <= y.Pos
         IN  <<w>> \o SortByPos(words \ {w})

sortAndReturnWords(words) ==
    LET sorted == SortByPos(words)
    IN  [i \in DOMAIN sorted |-> sorted[i].Text]

\* The words of ws that are no key of other, each with its position in ws.
WordsNotIn(ws, other) ==
    {[Text |-> w, Pos |-> ws[w]] : w \in (DOMAIN ws) \ (DOMAIN other)}

\* One iteration of the loop over the templates (lines 142-172); best is
\* <<bestScore, bestTemplate, bestExtra, bestMissing>>.
MatchStep(best, words, t, idx) ==
    LET extra   == WordsNotIn(words, t.Words)
        missing == WordsNotIn(t.Words, words)
        common  == Cardinality((DOMAIN words) \cap (DOMAIN t.Words))
        score   == FloatDiv(2 * common,
                            Cardinality(DOMAIN words) + Cardinality(DOMAIN t.Words))
    IN  IF FloatGreater(score, best.Score)
           THEN [Score |-> score, Template |-> idx,
                 Extra |-> extra, Missing |-> missing]
           ELSE best

RECURSIVE MatchLoop(_, _, _, _)
MatchLoop(best, words, ts, idx) ==
    IF idx > Len(ts) THEN best
    ELSE MatchLoop(MatchStep(best, words, ts[idx], idx), words, ts, idx + 1)

matchTemplates(license, ts) ==
    LET words == makeWordSet(license)
        best  == MatchLoop([Score |-> MinusOne, Template |-> 0,
                            Extra |-> {}, Missing |-> {}], words, ts, 1)
    IN  [Template     |-> best.Template,
         Score        |-> best.Score,
         ExtraWords   |-> sortAndReturnWords(best.Extra),
         MissingWords |-> sortAndReturnWords(best.Missing)]

NoResult == [Template |-> 0, Score |-> Zero,
             ExtraWords |-> <<>>, MissingWords |-> <<>>]

----------------------------------------------------------------------------
(* Bounds and input universes of the matcher specification *)

MaxTextLen == 3
MaxTemplates == 2

RawTokens == {"the", "MIT", "mit", Notice, Newline}

SampleTexts == SeqsUpTo(RawTokens, MaxTextLen)

\* Template bodies of the corpus.
Bodies == {<<>>,
           <<"mit">>,
           <<"The", "MIT">>,
           <<"mit", "the", "mit">>,
           <<Notice, "the", Newline, "license", "free">>}

Titles == <<"MIT License", "Apache License 2.0", "GNU General Public License v3.0">>

AssetAt(i, body) == [Title |-> Titles[i], Nickname |-> "", Body |-> body]

Corpora ==
    {[i \in DOMAIN bs |-> AssetAt(i, bs[i])] : bs \in SeqsUpTo(Bodies, MaxTemplates)}

----------------------------------------------------------------------------
(* The matcher specification: loadTemplates, then matchTemplates *)

InitMatch ==
    /\ pc = "load"
    /\ assets \in Corpora
    /\ templates = <<>>
    /\ sample \in SampleTexts
    /\ result = NoResult
    /\ licenses = <<>>
    /\ prefix = <<>>
    /\ kept = <<>>
    /\ groupErr = FALSE
    /\ RunIdle

\* One iteration of the loop of loadTemplates.
LoadTemplate ==
    /\ pc = "load"
    /\ Len(templates) < Len(assets)
    /\ templates' = Append(templates, parseTemplate(assets[Len(templates) + 1]))
    /\ UNCHANGED <<pc, assets, licenses, matchVars, groupVars, runVars>>

MatchSample ==
    /\ pc = "load"
    /\ Len(templates) = Len(assets)
    /\ result' = matchTemplates(sample, templates)
    /\ pc' = "matched"
    /\ UNCHANGED <<assets, templates, sample, licenses, groupVars, runVars>>

NextMatch == LoadTemplate \/ MatchSample

SpecMatch == InitMatch /\ [][NextMatch]_vars

----------------------------------------------------------------------------
(* Claims about matchTemplates *)

\* The corpus holds the template built from the sample text.
OwnTemplateLoaded ==
    \E i \in DOMAIN templates : templates[i].Words = makeWordSet(sample)

\* C6: matching a text T against a corpus that contains the template built
\* from T returns score exactly 1.0, also when T has no word tokens after
\* normalization.
C6_SelfMatchScoresOne ==
    (pc = "matched" /\ OwnTemplateLoaded) => result.Score = One

\* The position (from 0) of the first occurrence of word w among the word
\* tokens of the normalized text.
FirstPos(w, text) ==
    LET toks == FindAllWords(cleanLicenseData(text))
    IN  (CHOOSE i \in DOMAIN toks :
            toks[i] = w /\ \A j \in 1..(i - 1) : toks[j] # w) - 1

WordsOf(text) == Range(FindAllWords(cleanLicenseData(text)))

\* list holds exactly the words of `own` that are no words of `other`, once
\* each, strictly increasing by first position in `own`.
ExactlyTheDifference(list, own, other) ==
    /\ Range(list) = WordsOf(own) \ WordsOf(other)
    /\ \A i, j \in DOMAIN list :
          i < j => FirstPos(list[i], own) < FirstPos(list[j], own)

\* C7: in every result with a template, ExtraWords is exactly the set of
\* sample words absent from the winning template, MissingWords exactly the
\* set of the winning template's words absent from the sample, each without
\* duplicates and strictly increasing by first-occurrence position in its own
\* source text.
C7_ExtraMissingExactAndOrdered ==
    (pc = "matched" /\ result.Template # 0) =>
        LET body == assets[result.Template].Body
        IN  /\ ExactlyTheDifference(result.ExtraWords, sample, body)
            /\ ExactlyTheDifference(result.MissingWords, body, sample)

\* A result whose two lists hold two words each, in text order.
C7_Witness ==
    /\ pc = "matched"
    /\ result.Template # 0
    /\ result.ExtraWords = <<"the", "mit">>
    /\ result.MissingWords = <<"license", "free">>

\* The Dice score of the sample against template i is
\* DiceNum(i) / DiceDen(i); it is defined when the two word sets are not both
\* empty.
DiceNum(i) == 2 * Cardinality(WordsOf(sample) \cap WordsOf(assets[i].Body))

DiceDen(i) ==
    Cardinality(WordsOf(sample)) + Cardinality(WordsOf(assets[i].Body))

Scored == {i \in DOMAIN assets : DiceDen(i) > 0}

\* Template i reaches the maximum score of the corpus.
ScoresMaximum(i) ==
    \A j \in Scored : DiceNum(j) * DiceDen(i) <= DiceNum(i) * DiceDen(j)

\* C12: with a non-empty corpus the result's template is the first template
\* in corpus order whose Dice score equals the maximum score over the corpus,
\* and the result's score is that maximum; with an empty corpus the result
\* has score -1, no template and two empty word lists.
C12_FirstMaximumSelected ==
    pc = "matched" =>
        IF assets = <<>>
           THEN result = [Template |-> 0, Score |-> [num |-> -1, den |-> 1],
                          ExtraWords |-> <<>>, MissingWords |-> <<>>]
        ELSE IF Scored = {}
           THEN result.Template \in DOMAIN assets
        ELSE LET i == result.Template
             IN  /\ i \in Scored
                 /\ ScoresMaximum(i)
                 /\ \A j \in Scored : j < i => ~ScoresMaximum(j)
                 /\ result.Score.den > 0
                 /\ result.Score.num * DiceDen(i) = DiceNum(i) * result.Score.den

----------------------------------------------------------------------------
(* Strings: strings.Split, strings.Join *)

Slash == "/"

\* The index of the first "/" of s, 0 if there is none.
FirstSlash(s) ==
    IF \E i \in DOMAIN s : s[i] = Slash
       THEN CHOOSE i \in DOMAIN s :
                s[i] = Slash /\ \A j \in 1..(i - 1) : s[j] # Slash
       ELSE 0

\* strings.Split(s, "/")
RECURSIVE Split(_)
Split(s) ==
    LET i == FirstSlash(s)
    IN  IF i = 0 THEN <<s>>
        ELSE <<SubSeq(s, 1, i - 1)>> \o Split(SubSeq(s, i + 1, Len(s)))

\* strings.Join(parts, "/")
RECURSIVE Join(_)
Join(parts) ==
    IF parts = <<>> THEN <<>>
    ELSE IF Len(parts) = 1 THEN parts[1]
    ELSE parts[1] \o <<Slash>> \o Join(Tail(parts))

IsPrefixOf(p, q) == Len(p) <= Len(q) /\ SubSeq(q, 1, Len(p)) = p

\* filepath.Dir of a relative path without a trailing separator: the path
\* without its last segment, "." for a single segment.
filepathDir(path) ==
    IF Len(Split(path)) = 1 THEN <<".">>
    ELSE Join(SubSeq(Split(path), 1, Len(Split(path)) - 1))

----------------------------------------------------------------------------
(* longestCommonPrefix *)

\* A node of the prefix tree is identified by the parts that lead to it from
\* the root (<<>> is the root); the loop of lines 479-493 creates one node for
\* every non-empty prefix of the parts of every package.
TrieNodes(ls) ==
    UNION {{SubSeq(Split(ls[i].Package), 1, k) :
                k \in 1..Len(Split(ls[i].Package))} : i \in DOMAIN ls}

\* Node.Shared: c.Shared++ runs once for each package whose parts pass
\* through the node (line 490).
Shared(node, ls) ==
    Cardinality({i \in DOMAIN ls : IsPrefixOf(node, Split(ls[i].Package))})

\* Node.Children
Children(n, ls) ==
    {ch \in TrieNodes(ls) : Len(ch) = Len(n) + 1 /\ IsPrefixOf(n, ch)}

\* (The walk without the test of line 501.)
RECURSIVE WalkUnconditional(_, _, _)
WalkUnconditional(n, pfx, ls) ==
    IF Cardinality(Children(n, ls)) # 1 THEN pfx
    ELSE LET ch == CHOOSE x \in Children(n, ls) : TRUE
         IN  WalkUnconditional(ch, Append(pfx, ch[Len(ch)]), ls)

\* The loop of lines 496-510: follow the only child while there is exactly
\* one, appending its name when every package passes through it.
RECURSIVE Walk(_, _, _)
Walk(n, pfx, ls) ==
    IF Cardinality(Children(n, ls)) # 1 THEN pfx
    ELSE LET ch == CHOOSE x \in Children(n, ls) : TRUE
         IN  Walk(ch,
                  IF Shared(ch, ls) = Len(ls) THEN Append(pfx, ch[Len(ch)]) ELSE pfx,
                  ls)

longestCommonPrefix(ls) == Join(Walk(<<>>, <<>>, ls))

----------------------------------------------------------------------------
(* Input universe of the prefix specification *)

MaxPrefixList == 3

\* Import paths as lists of segments; "ab" is a segment of two symbols, which
\* shares its first character with the segment "a".
PrefixSegLists ==
    {<< <<"a">> >>,
     << <<"b">> >>,
     << <<"a">>, <<"b">> >>,
     << <<"a", "b">>, <<"c">> >>,
     << <<"a">>, <<"b">>, <<"c">> >>,
     << <<"a">>, <<"b">>, <<"c">>, <<"d">> >>,
     << <<"a">>, <<"b">>, <<"c">>, <<"d">>, <<"e">> >>,
     << <<"a">>, <<"b">>, <<"c">>, <<"d">>, <<"f">> >>}

PrefixPaths == {Join(p) : p \in PrefixSegLists}

\* License{Package: p}, as TestLongestPrefix builds it.
BareLicense(p) == [Package |-> p, LicenseInfos |-> <<>>, Err |-> ""]

PrefixLists ==
    {[i \in DOMAIN ps |-> BareLicense(ps[i])] :
        ps \in SeqsUpTo(PrefixPaths, MaxPrefixList)}

----------------------------------------------------------------------------
(* The prefix specification: longestCommonPrefix on a list of packages *)

InitPrefix ==
    /\ pc = "start"
    /\ assets = <<>>
    /\ templates = <<>>
    /\ sample = <<>>
    /\ result = NoResult
    /\ licenses \in PrefixLists
    /\ prefix = <<>>
    /\ kept = <<>>
    /\ groupErr = FALSE
    /\ RunIdle

CommonPrefix ==
    /\ pc = "start"
    /\ prefix' = longestCommonPrefix(licenses)
    /\ pc' = "prefixed"
    /\ UNCHANGED <<assets, templates, licenses, matchVars, kept, groupErr, runVars>>

NextPrefix == CommonPrefix

SpecPrefix == InitPrefix /\ [][NextPrefix]_vars

----------------------------------------------------------------------------
(* Claims about longestCommonPrefix *)

\* The segments of an import path of the universe: the list it was joined
\* from.
SegmentsOf(s) == CHOOSE p \in PrefixSegLists : Join(p) = s

\* The number of leading segments on which all the packages agree.
CommonDepth(ls) ==
    LET segs == [i \in DOMAIN ls |-> SegmentsOf(ls[i].Package)]
        Agree(k) == \A i \in DOMAIN ls :
                        /\ k <= Len(segs[i])
                        /\ SubSeq(segs[i], 1, k) = SubSeq(segs[1], 1, k)
    IN  CHOOSE k \in 0..Len(segs[1]) :
            Agree(k) /\ \A m \in (k + 1)..Len(segs[1]) : ~Agree(m)

\* C5: for every non-empty list of import paths the result is the "/"-join
\* of the longest sequence of leading segments that every path starts with,
\* and the empty string when the first segments differ; the walk over the
\* prefix tree ends.
C5_LongestCommonSegmentPrefix ==
    (pc = "prefixed" /\ licenses # <<>>) =>
        prefix = Join(SubSeq(SegmentsOf(licenses[1].Package), 1,
                             CommonDepth(licenses)))

\* {a/b, a/b/c/d/f, a/b/c/d/e} -> "a/b", the third case of TestLongestPrefix.
C5_Witness ==
    /\ pc = "prefixed"
    /\ licenses = <<BareLicense(<<"a", "/", "b">>),
                    BareLicense(<<"a", "/", "b", "/", "c", "/", "d", "/", "f">>),
                    BareLicense(<<"a", "/", "b", "/", "c", "/", "d", "/", "e">>)>>
    /\ prefix = <<"a", "/", "b">>

----------------------------------------------------------------------------
(* groupLicenses *)

EmptyString == <<>>

\* The non-empty license paths of the list: the keys of the map `paths`.
PathKeys(ls) ==
    UNION {{ls[i].LicenseInfos[j].Path : j \in DOMAIN ls[i].LicenseInfos} :
              i \in DOMAIN ls} \ {EmptyString}

\* paths[p] after the loop of lines 519-526: the packages that list p, in
\* input order, once for each entry that names p.
RECURSIVE Listing(_, _)
Listing(ls, p) ==
    IF ls = <<>> THEN <<>>
    ELSE LET l == Head(ls)
             n == Cardinality({j \in DOMAIN l.LicenseInfos :
                                  l.LicenseInfos[j].Path = p})
         IN  [i \in 1..n |-> l] \o Listing(Tail(ls), p)

\* (The conflict test taking the prefix of the whole input instead of the
\* prefix of the packages that share the path.)
HasConflictOverAll(ls) ==
    \E p \in PathKeys(ls) :
        Len(Listing(ls, p)) > 1 /\ longestCommonPrefix(ls) = EmptyString

\* Lines 527-535: some path is shared and its packages have no common prefix.
HasConflict(ls) ==
    \E p \in PathKeys(ls) :
        Len(Listing(ls, p)) > 1
        /\ longestCommonPrefix(Listing(ls, p)) = EmptyString

\* Lines 527-539 for one key: a shared path keeps its first package, renamed
\* to the common prefix.
Regroup(v) ==
    IF Len(v) <= 1 THEN v
    ELSE <<[v[1] EXCEPT !.Package = longestCommonPrefix(v)]>>

GroupedPaths(ls) == [p \in PathKeys(ls) |-> Regroup(Listing(ls, p))]

\* Lines 550-560: one license entry of one package; st is
\* [kept, seen, paths].
KeepInfo(st, l, li) ==
    IF li.Path = EmptyString
       THEN [st EXCEPT !.kept = Append(@, l)]
    ELSE IF li.Path \in DOMAIN st.paths
       THEN LET v == st.paths[li.Path]
            IN  IF v[1].Package \notin st.seen
                   THEN [kept  |-> Append(st.kept, v[1]),
                         seen  |-> st.seen \cup {v[1].Package},
                         paths |-> [q \in (DOMAIN st.paths) \ {li.Path} |->
                                       st.paths[q]]]
                   ELSE st
    ELSE st

RECURSIVE KeepInfos(_, _, _)
KeepInfos(st, l, lis) ==
    IF lis = <<>> THEN st
    ELSE KeepInfos(KeepInfo(st, l, Head(lis)), l, Tail(lis))

\* Lines 544-562.
RECURSIVE KeepLoop(_, _)
KeepLoop(st, ls) ==
    IF ls = <<>> THEN st
    ELSE LET l == Head(ls)
         IN  KeepLoop(IF Len(l.LicenseInfos) = 0
                         THEN [st EXCEPT !.kept = Append(@, l)]
                         ELSE KeepInfos(st, l, l.LicenseInfos),
                      Tail(ls))

\* The result of groupLicenses: (nil, error) or (kept, nil).
groupLicenses(ls) ==
    IF HasConflict(ls)
       THEN [kept |-> <<>>, err |-> TRUE]
       ELSE [kept |-> KeepLoop([kept |-> <<>>, seen |-> {},
                                paths |-> GroupedPaths(ls)], ls).kept,
             err  |-> FALSE]

----------------------------------------------------------------------------
(* The license file locator: scoreLicenseName, findLicenses *)

\* The file names of the modelled source tree that reLicense matches with a
\* non-empty first or second group: (un)licen[sc]e or copy(ing|right), with
\* at most one extension, in any case.
LicenseLikeNames == {"LICENSE", "COPYING", "LICENSE.md", "COPYRIGHT"}

scoreLicenseName(name) == IF name \in LicenseLikeNames THEN 1 ELSE 0

\* filepath.Join(path, name)
filepathJoin(path, name) == path \o <<Slash>> \o name

\* Lines 351-360: the license-named regular files of one directory listing.
ViableNames(path, fis) ==
    LET viable == SelectSeq(fis, LAMBDA fi :
                      fi.Regular /\ scoreLicenseName(fi.Name) = 1)
    IN  [i \in DOMAIN viable |-> filepathJoin(path, <<viable[i].Name>>)]

\* (The search that looks at the package's own directory only.)
FindFromOwnDirOnly(path, t) ==
    IF path = <<".">> \/ path \notin DOMAIN t
       THEN [paths |-> <<EmptyString>>, err |-> path \notin DOMAIN t]
    ELSE IF Len(ViableNames(path, t[path])) > 0
            THEN [paths |-> ViableNames(path, t[path]), err |-> FALSE]
    ELSE [paths |-> <<EmptyString>>, err |-> FALSE]

\* findLicenses from directory `path` upwards in source tree t; the result is
\* [paths, err]. ioutil.ReadDir fails on a directory the tree does not hold.
RECURSIVE FindFrom(_, _)
FindFrom(path, t) ==
    IF path = <<".">> THEN [paths |-> <<EmptyString>>, err |-> FALSE]
    ELSE IF path \notin DOMAIN t THEN [paths |-> <<EmptyString>>, err |-> TRUE]
    ELSE IF Len(ViableNames(path, t[path])) > 0
            THEN [paths |-> ViableNames(path, t[path]), err |-> FALSE]
    ELSE FindFrom(filepathDir(path), t)

findLicenses(info, t) == FindFrom(info.ImportPath, t)

----------------------------------------------------------------------------
(* listLicenses *)

\* filepath.Join(info.Root, "src", path)
FilePath(info, path) == info.Root \o <<Slash, "src", Slash>> \o path

\* The text of the license files of the modelled source tree
\* (ioutil.ReadFile).
ReadFile(fpath) ==
    LET name == fpath[Len(fpath)]
    IN  CASE name = "LICENSE"    -> <<"The", "MIT", Newline, Notice, "Ben">>
          [] name = "COPYING"    -> <<"mit">>
          [] name = "LICENSE.md" -> <<"free", "license", "text">>
          [] OTHER               -> <<>>

\* LicenseInfo{Path: path}: the other fields keep their zero values.
PathOnly(path) ==
    [Path |-> path, Score |-> Zero, Template |-> 0,
     ExtraWords |-> <<>>, MissingWords |-> <<>>]

\* (The lookup that never finds an entry.)
CachedNever(cache, fpath) == FALSE

\* m, ok := matched[fpath]
Cached(cache, fpath) == fpath \in DOMAIN cache

\* Lines 437-450: the match of the file at a non-empty path, looked up in the
\* cache first; st is [infos, matched, calls], calls the paths handed to
\* matchTemplates so far.
MatchPath(st, info, path, ts) ==
    LET fpath == FilePath(info, path)
        hit   == Cached(st.matched, fpath)
        m     == IF hit THEN st.matched[fpath]
                 ELSE matchTemplates(ReadFile(fpath), ts)
    IN  [infos   |-> Append(st.infos,
                            [Path |-> path, Score |-> m.Score,
                             Template |-> m.Template,
                             ExtraWords |-> m.ExtraWords,
                             MissingWords |-> m.MissingWords]),
         matched |-> IF hit THEN st.matched
                     ELSE [k \in (DOMAIN st.matched) \cup {fpath} |->
                              IF k = fpath THEN m ELSE st.matched[k]],
         calls   |-> IF hit THEN st.calls ELSE Append(st.calls, fpath)]

\* (The loop body without the test of line 436.)
ListPathMatchingEmpty(st, info, path, ts) == MatchPath(st, info, path, ts)

\* Lines 435-452 for one path.
ListPath(st, info, path, ts) ==
    IF path = EmptyString
       THEN [st EXCEPT !.infos = Append(@, PathOnly(path))]
       ELSE MatchPath(st, info, path, ts)

RECURSIVE ListPaths(_, _, _, _)
ListPaths(st, info, paths, ts) ==
    IF paths = <<>> THEN st
    ELSE ListPaths(ListPath(st, info, Head(paths), ts), info, Tail(paths), ts)

\* (The License of a broken package without its error string.)
BrokenLicenseNoErr(info) ==
    [Package |-> info.Name, Err |-> "",
     LicenseInfos |-> <<PathOnly(EmptyString)>>]

\* Lines 415-419: the License of a package that carries a build error.
BrokenLicense(info) ==
    [Package |-> info.Name, Err |-> info.Error[1],
     LicenseInfos |-> <<PathOnly(EmptyString)>>]

\* The packages of `go list std cmd` among the modelled import paths.
StdSet == {<<"os">>}

----------------------------------------------------------------------------
(* licensesToProjectAndLicenses, removeVendor, truncateFloat *)

VendorDir == <<Slash, "vendor", Slash>>

\* strings.Index(s, "/vendor/"), from 1; 0 if there is none.
IndexVendor(s) ==
    LET hits == {i \in 1..(Len(s) - 2) : SubSeq(s, i, i + 2) = VendorDir}
    IN  IF hits = {} THEN 0
        ELSE CHOOSE i \in hits : \A j \in hits : i <= j

removeVendor(s) ==
    LET i == IndexVendor(s)
    IN  IF i = 0 THEN s ELSE SubSeq(s, i + 3, Len(s))

\* fmt.Sprintf("%.3f", f) parsed back: f rounded to three decimal digits
\* (an exact tie, which needs a denominator of 16, 80, 400 or 2000, goes to
\* the even neighbour). No function of the program calls truncateFloat.
truncateFloat(f) ==
    IF f = NaN THEN NaN
    ELSE LET n == Abs(f.num) * 1000
             q == n \div f.den
             r == n % f.den
             up == 2 * r > f.den \/ (2 * r = f.den /\ q % 2 = 1)
             m == IF up THEN q + 1 ELSE q
         IN  Frac(IF f.num < 0 THEN -m ELSE m, 1000)

NoLicenseDetected == "No license detected"

\* Lines 586-591: the number of entries without a template.
CountNoTemplate(l) ==
    Cardinality({i \in DOMAIN l.LicenseInfos : l.LicenseInfos[i].Template = 0})

\* Line 592
IsUndetected(l) == Len(l.LicenseInfos) = CountNoTemplate(l)

\* Lines 599-607; ts is the corpus the Template pointers point into.
RECURSIVE TruncLicenses(_, _)
TruncLicenses(lis, ts) ==
    IF lis = <<>> THEN <<>>
    ELSE LET li == Head(lis)
         IN  (IF ts[li.Template].Title # ""
                 THEN <<[Name |-> ts[li.Template].Title, Confidence |-> li.Score]>>
                 ELSE <<>>)
             \o TruncLicenses(Tail(lis), ts)

ErrorEntry(l, msg) ==
    [Project |-> removeVendor(l.Package), Licenses |-> <<>>, Error |-> msg]

----------------------------------------------------------------------------
(* Input universe of the grouping specification *)

MaxGroupList == 3

GroupSegLists ==
    {<< <<"x">> >>,
     << <<"z">> >>,
     << <<"x">>, <<"y">> >>,
     << <<"x">>, <<"y">>, <<"sub">> >>,
     << <<"x">>, <<"t">> >>}

GroupPackages == {Join(p) : p \in GroupSegLists}

PathA == <<"x", "/", "LICENSE">>
PathB == <<"x", "/", "y", "/", "LICENSE">>
PathC == <<"x", "/", "COPYING">>

\* A license entry as listLicenses fills it; in this specification the match
\* data is a function of the path, as it is with the cache of listLicenses.
InfoAt(path) ==
    [Path         |-> path,
     Score        |-> IF path = EmptyString THEN Zero ELSE One,
     Template     |-> IF path = EmptyString THEN 0
                      ELSE IF path = PathA THEN 1
                      ELSE IF path = PathB THEN 2 ELSE 3,
     ExtraWords   |-> <<>>,
     MissingWords |-> <<>>]

InfoLists ==
    {<<>>,
     <<InfoAt(EmptyString)>>,
     <<InfoAt(PathA)>>,
     <<InfoAt(PathB)>>,
     <<InfoAt(PathC)>>,
     <<InfoAt(PathC), InfoAt(PathA)>>}

GroupLicenseValues ==
    {[Package |-> pkg, LicenseInfos |-> lis, Err |-> ""] :
        pkg \in GroupPackages, lis \in InfoLists}
    \cup
    {[Package |-> pkg, LicenseInfos |-> <<InfoAt(EmptyString)>>,
      Err |-> "some error"] : pkg \in GroupPackages}

----------------------------------------------------------------------------
(* The grouping specification: a list of packages is built, one License at *)
(* a time as listLicenses appends them, and handed to groupLicenses        *)

InitGroup ==
    /\ pc = "start"
    /\ assets = <<>>
    /\ templates = <<>>
    /\ sample = <<>>
    /\ result = NoResult
    /\ licenses = <<>>
    /\ prefix = <<>>
    /\ kept = <<>>
    /\ groupErr = FALSE
    /\ RunIdle

\* licenses = append(licenses, license) with a package not yet in the list
\* (listPackagesAndDeps lists every import path once).
AppendLicense(l) ==
    /\ pc = "start"
    /\ Len(licenses) < MaxGroupList
    /\ \A i \in DOMAIN licenses : licenses[i].Package # l.Package
    /\ licenses' = Append(licenses, l)
    /\ UNCHANGED <<pc, assets, templates, matchVars, groupVars, runVars>>

AppendAny == \E l \in GroupLicenseValues : AppendLicense(l)

GroupLicenses ==
    /\ pc = "start"
    /\ kept' = groupLicenses(licenses).kept
    /\ groupErr' = groupLicenses(licenses).err
    /\ pc' = "grouped"
    /\ UNCHANGED <<assets, templates, licenses, matchVars, prefix, runVars>>

NextGroup == AppendAny \/ GroupLicenses

SpecGroup == InitGroup /\ [][NextGroup]_vars

\* What listLicenses can hand over for one package: the placeholder, or the
\* license files of one directory on the way from the package's directory up
\* to the source root (findLicenses; the files of the directory depend on the
\* GOPATH root the package lives in).
Located(l) ==
    /\ l.LicenseInfos # <<>>
    /\ \/ l.LicenseInfos = <<InfoAt(EmptyString)>>
       \/ \A j \in DOMAIN l.LicenseInfos :
             /\ l.LicenseInfos[j].Path # EmptyString
             /\ filepathDir(l.LicenseInfos[j].Path) = filepathDir(l.LicenseInfos[1].Path)
             /\ IsPrefixOf(Split(filepathDir(l.LicenseInfos[j].Path)), Split(l.Package))

\* The same run of groupLicenses, on the lists listLicenses can produce.
AppendLocated == \E l \in GroupLicenseValues : Located(l) /\ AppendLicense(l)

NextLocated == AppendLocated \/ GroupLicenses

SpecLocated == InitGroup /\ [][NextLocated]_vars

----------------------------------------------------------------------------
(* Claims about groupLicenses *)

GroupSegmentsOf(s) == CHOOSE p \in GroupSegLists : Join(p) = s

\* The positions in the input of the packages that list path p.
Listers(p) ==
    {i \in DOMAIN licenses :
        \E j \in DOMAIN licenses[i].LicenseInfos :
            licenses[i].LicenseInfos[j].Path = p}

FirstLister(p) == CHOOSE i \in Listers(p) : \A k \in Listers(p) : i <= k

\* The longest list of leading segments shared by the packages at the
\* positions I.
CommonSegments(I) ==
    LET first == GroupSegmentsOf(licenses[CHOOSE i \in I : TRUE].Package)
        Agree(k) == \A i \in I :
                        LET seg == GroupSegmentsOf(licenses[i].Package)
                        IN  k <= Len(seg) /\ SubSeq(seg, 1, k) = SubSeq(first, 1, k)
        depth == CHOOSE k \in 0..Len(first) :
                    Agree(k) /\ \A m \in (k + 1)..Len(first) : ~Agree(m)
    IN  SubSeq(first, 1, depth)

SharedPaths == {p \in PathKeys(licenses) : Cardinality(Listers(p)) >= 2}

\* The entry that stands for the group of path p: the first package that
\* lists p, renamed to the common prefix of the group.
Representative(p) ==
    [licenses[FirstLister(p)] EXCEPT
        !.Package = Join(CommonSegments(Listers(p)))]

\* C3: when two or more packages list the same non-empty license path and
\* their import paths have a non-empty longest common segment prefix, the
\* output holds exactly one entry for that group, named by the prefix and
\* with the license data of the first package of the group; and no entry of
\* the output merges packages that do not list an identical path.
C3_OneEntryPerGroup ==
    (pc = "grouped" /\ ~groupErr) =>
        /\ \A p \in SharedPaths :
              CommonSegments(Listers(p)) # <<>> =>
                 Cardinality({k \in DOMAIN kept : kept[k] = Representative(p)}) = 1
        /\ \A k \in DOMAIN kept :
              \/ kept[k] \in Range(licenses)
              \/ \E p \in SharedPaths : kept[k] = Representative(p)

\* C4: groupLicenses returns an error and no list whenever some non-empty
\* license path is listed by more than one package whose longest common
\* import-path prefix is empty, and returns no error in every other case.
C4_ErrorIffSharedWithoutPrefix ==
    pc = "grouped" =>
        /\ groupErr <=> \E p \in SharedPaths : CommonSegments(Listers(p)) = <<>>
        /\ groupErr => kept = <<>>

\* Two packages without a common first segment share a path, and a third
\* package is there: the error is returned.
C4_Witness ==
    /\ pc = "grouped"
    /\ groupErr
    /\ kept = <<>>
    /\ Len(licenses) = 3

\* The license paths of the package at position i.
PathSet(i) ==
    {licenses[i].LicenseInfos[j].Path : j \in DOMAIN licenses[i].LicenseInfos}

\* The group of the package at position i: the packages that list the same
\* license files.
GroupOf(i) == {m \in DOMAIN licenses : PathSet(m) = PathSet(i)}

\* The package has at least one license file, and none of its files is
\* listed by a package outside its group.
GroupIsClosed(i) ==
    /\ PathSet(i) # {}
    /\ <<>> \notin PathSet(i)
    /\ \A p \in PathSet(i) : Listers(p) \subseteq GroupOf(i)

\* The entry that stands for the package at position i: the package itself,
\* or the first package of its group renamed to the group's common prefix.
StandIn(i) ==
    IF GroupOf(i) = {i} THEN licenses[i]
    ELSE [licenses[CHOOSE m \in GroupOf(i) : \A n \in GroupOf(i) : m <= n]
             EXCEPT !.Package = Join(CommonSegments(GroupOf(i)))]

\* C11: a package that has k >= 1 license files, none of them listed by a
\* package outside its group, is represented in the output of groupLicenses
\* exactly once, as itself or through its group's representative, and that
\* entry carries one license entry per file, all k of them; no license path
\* of the input is left without an output entry carrying it.
C11_RepresentedOnceWithAllFiles ==
    (pc = "grouped" /\ ~groupErr) =>
        /\ \A i \in DOMAIN licenses :
              GroupIsClosed(i) =>
                 /\ Cardinality({k \in DOMAIN kept : kept[k] = StandIn(i)}) = 1
                 /\ Len(StandIn(i).LicenseInfos) = Cardinality(PathSet(i))
                 /\ {StandIn(i).LicenseInfos[j].Path :
                        j \in DOMAIN StandIn(i).LicenseInfos} = PathSet(i)
        /\ \A i \in DOMAIN licenses :
              GroupIsClosed(i) =>
                 \A p \in PathSet(i) :
                     \E k \in DOMAIN kept :
                         \E j \in DOMAIN kept[k].LicenseInfos :
                             kept[k].LicenseInfos[j].Path = p

----------------------------------------------------------------------------
(* pkgsToLicenses: the override merge *)

\* The names that lines 641-645 append to fplm[proj].
RECURSIVE NamesFor(_, _)
NamesFor(ovs, proj) ==
    IF ovs = <<>> THEN <<>>
    ELSE (IF Head(ovs).Project = proj
             THEN [k \in DOMAIN Head(ovs).Licenses |-> Head(ovs).Licenses[k].Name]
             ELSE <<>>)
         \o NamesFor(Tail(ovs), proj)

\* fplm after lines 641-645: a key exists once a name was appended to it.
BuildFplm(ovs) ==
    [proj \in {ovs[i].Project : i \in {j \in DOMAIN ovs : Len(ovs[j].Licenses) > 0}}
        |-> NamesFor(ovs, proj)]

Forced(names) == [k \in DOMAIN names |-> [Name |-> names[k], Confidence |-> One]]

\* Lines 661-666 and 678-683: the forced licenses are appended to tls, which
\* is declared outside the loop over the projects.
ForcedOnto(tls, names) == tls \o Forced(names)

\* l, ok := fplm[pl.Project] (lines 660 and 691)
IsOverridden(fplm, project) == project \in DOMAIN fplm

\* Lines 659-674 for one computed attribution; st is [pls, tls, fplm].
DetectedStep(st, pl) ==
    IF IsOverridden(st.fplm, pl.Project)
       THEN LET tls == ForcedOnto(st.tls, st.fplm[pl.Project])
            IN  [pls  |-> Append(st.pls, [Project |-> pl.Project,
                                          Licenses |-> tls, Error |-> ""]),
                 tls  |-> tls,
                 fplm |-> [q \in (DOMAIN st.fplm) \ {pl.Project} |-> st.fplm[q]]]
       ELSE [st EXCEPT !.pls = Append(@, pl)]

RECURSIVE DetectedLoop(_, _)
DetectedLoop(st, cs) ==
    IF cs = <<>> THEN st
    ELSE DetectedLoop(DetectedStep(st, Head(cs)), Tail(cs))

\* Lines 677-688, the keys of fplm taken in the given order; st is
\* [pls, tls, fplm].
RECURSIVE ForcedLoop(_, _)
ForcedLoop(st, order) ==
    IF order = <<>> THEN st
    ELSE LET proj == Head(order)
             tls  == ForcedOnto(st.tls, st.fplm[proj])
         IN  ForcedLoop([pls  |-> Append(st.pls, [Project |-> proj,
                                                  Licenses |-> tls, Error |-> ""]),
                         tls  |-> tls,
                         fplm |-> st.fplm],
                        Tail(order))

\* The orders in which a range over a map may visit its keys.
KeyOrders(f) ==
    {o \in [1..Cardinality(DOMAIN f) -> DOMAIN f] : Range(o) = DOMAIN f}

\* Lines 690-694
RemainingErrors(es, fplm) ==
    SelectSeq(es, LAMBDA pl : ~IsOverridden(fplm, pl.Project))

----------------------------------------------------------------------------
(* Input universe of a run of pkgsToLicenses *)

RootDir == <<Slash, "go">>

PkgA == <<"a">>
PkgAB == <<"a", Slash, "b">>
PkgCVA == <<"c", Slash, "vendor", Slash, "a">>
PkgOS == <<"os">>

\* The import paths of the batch in the order of sort.Strings(deps).
RunPackages == <<PkgA, PkgAB, PkgCVA, PkgOS>>

NoError == <<>>

\* A package go list could load: Name is the package name.
GoodInfo(path) ==
    [Name |-> <<path[Len(path)]>>, Root |-> RootDir, ImportPath |-> path,
     Error |-> NoError]

\* A package go list could not load: getPackagesInfo sets the empty Name to
\* the import path (lines 312-314).
BrokenInfo(path) ==
    [Name |-> path, Root |-> RootDir, ImportPath |-> path,
     Error |-> <<"cannot find package">>]

\* Every package of RunPackages is absent, loadable or broken; the standard
\* package is absent or loadable.
RECURSIVE InfoListsFrom(_)
InfoListsFrom(paths) ==
    IF paths = <<>> THEN {<<>>}
    ELSE LET rest == InfoListsFrom(Tail(paths))
             p    == Head(paths)
         IN  rest
             \cup {<<GoodInfo(p)>> \o r : r \in rest}
             \cup (IF p \in StdSet THEN {}
                   ELSE {<<BrokenInfo(p)>> \o r : r \in rest})

InfoChoices == InfoListsFrom(RunPackages)

File(name) == [Name |-> name, Regular |-> TRUE]
Directory(name) == [Name |-> name, Regular |-> FALSE]

\* The listings ioutil.ReadDir returns (sorted by name) for the directories
\* under Root/src.
DirA == {<<File("README"), Directory("b")>>,
         <<File("LICENSE"), File("README"), Directory("b")>>,
         <<File("COPYING"), File("LICENSE"), File("README"), Directory("b")>>}
DirAB == {<<File("main.go")>>,
          <<File("LICENSE"), File("main.go")>>}
DirCVA == {<<Directory("COPYRIGHT"), File("main.go")>>,
           <<Directory("COPYRIGHT"), File("LICENSE.md"), File("main.go")>>}

TreeOf(a, ab, cva) ==
    LET dirs == {PkgA, PkgAB, <<"c">>, <<"c", Slash, "vendor">>, PkgCVA}
    IN  [d \in dirs |->
            CASE d = PkgA -> a
              [] d = PkgAB -> ab
              [] d = PkgCVA -> cva
              [] d = <<"c">> -> <<Directory("vendor")>>
              [] OTHER -> <<Directory("a")>>]

TreeChoices == {TreeOf(a, ab, cva) : a \in DirA, ab \in DirAB, cva \in DirCVA}

\* The override documents: entries with pairwise different projects, each
\* with at least one license name.
OverrideProjects == {PkgA, PkgAB}

OverrideNames ==
    {<<[Name |-> "override existing", Confidence |-> Zero]>>,
     <<[Name |-> "override missing", Confidence |-> Zero]>>,
     <<[Name |-> "override missing", Confidence |-> Zero],
       [Name |-> "override existing", Confidence |-> Zero]>>}

OverrideEntries ==
    {[Project |-> proj, Licenses |-> names, Error |-> ""] :
        proj \in OverrideProjects, names \in OverrideNames}

OverrideChoices ==
    {ovs \in SeqsUpTo(OverrideEntries, Cardinality(OverrideProjects)) :
        \A i, j \in DOMAIN ovs : i # j => ovs[i].Project # ovs[j].Project}

\* The corpus of a run: the second template has no title in its front matter.
RunAssets ==
    <<[Title |-> "MIT License", Nickname |-> "MIT", Body |-> <<"The", "MIT">>],
      [Title |-> "", Nickname |-> "", Body |-> <<"free", "license">>]>>

----------------------------------------------------------------------------
(* The specification of a run of pkgsToLicenses *)

Init ==
    /\ pc = "load"
    /\ assets = RunAssets
    /\ templates = <<>>
    /\ sample = <<>>
    /\ result = NoResult
    /\ licenses = <<>>
    /\ prefix = <<>>
    /\ kept = <<>>
    /\ groupErr = FALSE
    /\ infos \in InfoChoices
    /\ tree \in TreeChoices
    /\ overrides \in OverrideChoices
    /\ pos = 0
    /\ matched = <<>>
    /\ matchCalls = <<>>
    /\ found = NotSearched
    /\ cpos = 0
    /\ c = <<>>
    /\ e = <<>>
    /\ pls = <<>>
    /\ ne = <<>>

\* listLicenses, lines 387-412: the templates are loaded, the packages are
\* listed, the cache and the result are empty.
StartListing ==
    /\ pc = "load"
    /\ Len(templates) = Len(assets)
    /\ pc' = "list"
    /\ pos' = 1
    /\ matched' = <<>>
    /\ licenses' = <<>>
    /\ UNCHANGED <<assets, templates, matchVars, groupVars, inputVars,
                   matchCalls, found, outVars>>

\* One iteration of the loop of lines 413-456.
ListPackage ==
    /\ pc = "list"
    /\ pos <= Len(infos)
    /\ LET info == infos[pos]
           fl == findLicenses(info, tree)
           st == ListPaths([infos |-> <<>>, matched |-> matched,
                            calls |-> matchCalls],
                           info, fl.paths, templates)
       IN  IF info.Error # NoError
              THEN /\ licenses' = Append(licenses, BrokenLicense(info))
                   /\ pos' = pos + 1
                   /\ UNCHANGED <<pc, matched, matchCalls, found>>
           ELSE IF info.ImportPath \in StdSet
              THEN /\ pos' = pos + 1
                   /\ UNCHANGED <<pc, licenses, matched, matchCalls, found>>
           ELSE IF fl.err
              THEN /\ pc' = "fatal"
                   /\ found' = fl
                   /\ UNCHANGED <<licenses, pos, matched, matchCalls>>
           ELSE /\ licenses' = Append(licenses,
                                      [Package |-> info.ImportPath,
                                       LicenseInfos |-> st.infos, Err |-> ""])
                /\ matched' = st.matched
                /\ matchCalls' = st.calls
                /\ found' = fl
                /\ pos' = pos + 1
                /\ UNCHANGED pc
    /\ UNCHANGED <<assets, templates, matchVars, groupVars, inputVars, outVars>>

\* listLicenses returns; pkgsToLicenses groups the licenses (lines 651-653).
GroupListed ==
    /\ pc = "list"
    /\ pos > Len(infos)
    /\ kept' = groupLicenses(licenses).kept
    /\ groupErr' = groupLicenses(licenses).err
    /\ pc' = IF groupLicenses(licenses).err THEN "fatal" ELSE "convert"
    /\ cpos' = 1
    /\ UNCHANGED <<assets, templates, licenses, matchVars, prefix, inputVars,
                   listVars, c, e, pls, ne>>

\* One iteration of the loop of licensesToProjectAndLicenses (lines 578-612).
\* li.Template.Title panics on an entry without a template.
ConvertLicense ==
    /\ pc = "convert"
    /\ cpos <= Len(kept)
    /\ LET l == kept[cpos]
       IN  IF l.Err # ""
              THEN /\ e' = Append(e, ErrorEntry(l, l.Err))
                   /\ UNCHANGED <<pc, c>>
           ELSE IF IsUndetected(l)
              THEN /\ e' = Append(e, ErrorEntry(l, NoLicenseDetected))
                   /\ UNCHANGED <<pc, c>>
           ELSE IF CountNoTemplate(l) > 0
              THEN /\ pc' = "panic"
                   /\ UNCHANGED <<c, e>>
           ELSE /\ c' = Append(c, [Project  |-> removeVendor(l.Package),
                                   Licenses |-> TruncLicenses(l.LicenseInfos,
                                                              templates),
                                   Error    |-> ""])
                /\ UNCHANGED <<pc, e>>
    /\ cpos' = cpos + 1
    /\ UNCHANGED <<assets, templates, licenses, matchVars, groupVars, inputVars,
                   listVars, pls, ne>>

\* Lines 656-696: the overrides replace or add attributions and suppress
\* errors; the range over fplm of line 677 visits its keys in any order.
MergeOverrides ==
    /\ pc = "convert"
    /\ cpos > Len(kept)
    /\ LET detected == DetectedLoop([pls |-> <<>>, tls |-> <<>>,
                                     fplm |-> BuildFplm(overrides)], c)
       IN  /\ \E order \in KeyOrders(detected.fplm) :
                 pls' = ForcedLoop([pls |-> detected.pls, tls |-> <<>>,
                                    fplm |-> detected.fplm], order).pls
           /\ ne' = RemainingErrors(e, detected.fplm)
    /\ pc' = "done"
    /\ UNCHANGED <<assets, templates, licenses, matchVars, groupVars, inputVars,
                   listVars, cpos, c, e>>

Next ==
    \/ LoadTemplate
    \/ StartListing
    \/ ListPackage
    \/ GroupListed
    \/ ConvertLicense
    \/ MergeOverrides

Spec == Init /\ [][Next]_vars

----------------------------------------------------------------------------
(* The locator specification: findLicenses on one package *)

MaxDepth == 3

SegmentNames == <<"p", "q", "r", "s", "t">>

\* The directory k levels below Root/src, as an import path.
RECURSIVE DirAt(_)
DirAt(k) ==
    IF k = 1 THEN <<SegmentNames[1]>>
    ELSE DirAt(k - 1) \o <<Slash, SegmentNames[k]>>

\* What a directory holds besides its subdirectory, sorted by name.
OwnEntries ==
    {<<>>,
     <<File("README")>>,
     <<File("LICENSE"), File("README")>>,
     <<File("COPYING"), File("LICENSE"), File("README")>>,
     <<Directory("LICENSE"), File("README")>>,
     <<File("COPYING"), Directory("LICENSE")>>}

\* The trees of depth n: directory k lists its own entries and, above the
\* deepest level, the subdirectory k + 1.
TreesOfDepth(n) ==
    {[d \in {DirAt(k) : k \in 1..n} |->
         LET k == CHOOSE j \in 1..n : DirAt(j) = d
         IN  own[k] \o (IF k < n THEN <<Directory(SegmentNames[k + 1])>>
                        ELSE <<>>)] :
       own \in [1..n -> OwnEntries]}

\* The trees with the package they are searched for. The directory of the
\* package is missing from the tree when go list reported a location that
\* cannot be read.
FindInputs ==
    UNION {{[tree |-> t, info |-> GoodInfo(DirAt(k))] :
               t \in TreesOfDepth(n), k \in 1..(n + 1)} : n \in 1..(MaxDepth - 1)}
    \cup {[tree |-> t, info |-> GoodInfo(DirAt(k))] :
             t \in TreesOfDepth(MaxDepth), k \in 1..MaxDepth}

InitFind ==
    /\ pc = "start"
    /\ assets = <<>>
    /\ templates = <<>>
    /\ sample = <<>>
    /\ result = NoResult
    /\ licenses = <<>>
    /\ prefix = <<>>
    /\ kept = <<>>
    /\ groupErr = FALSE
    /\ \E in \in FindInputs : infos = <<in.info>> /\ tree = in.tree
    /\ overrides = <<>>
    /\ pos = 1
    /\ matched = <<>>
    /\ matchCalls = <<>>
    /\ found = NotSearched
    /\ cpos = 0
    /\ c = <<>>
    /\ e = <<>>
    /\ pls = <<>>
    /\ ne = <<>>

\* paths, err := findLicenses(info) (line 425)
FindLicenses ==
    /\ pc = "start"
    /\ pos = 1
    /\ found' = findLicenses(infos[pos], tree)
    /\ pc' = "located"
    /\ UNCHANGED <<assets, templates, licenses, matchVars, groupVars, inputVars,
                   pos, matched, matchCalls, outVars>>

NextFind == FindLicenses

SpecFind == InitFind /\ [][NextFind]_vars

----------------------------------------------------------------------------
(* Claims about findLicenses *)

\* The directories from the package's own directory up to the one right
\* below the source root, by their depth.
DepthOf(path) == (Len(path) + 1) \div 2

DirAbove(path, k) == SubSeq(path, 1, 2 * k - 1)

\* The license-named regular files of directory d, as paths from the source
\* root.
LicenseFilesIn(d) ==
    {d \o <<"/", tree[d][i].Name>> :
        i \in {j \in DOMAIN tree[d] :
                  /\ tree[d][j].Regular
                  /\ tree[d][j].Name \in {"LICENSE", "COPYING"}}}

----------------------------------------------------------------------------
(* Claims about a run of pkgsToLicenses *)

\* The names of an override entry, each at confidence 1.0.
OwnLicenses(entry) ==
    [k \in DOMAIN entry.Licenses |->
        [Name |-> entry.Licenses[k].Name, Confidence |-> [num |-> 1, den |-> 1]]]

\* C1: for every override entry, however many there are and whether or not
\* its project matches a computed attribution, the final confident list has
\* an entry for that project whose licenses are exactly the entry's own
\* names, in order, each with confidence 1.0.
C1_OverrideEntriesExact ==
    pc = "done" =>
        \A i \in DOMAIN overrides :
            \E j \in DOMAIN pls :
                /\ pls[j].Project = overrides[i].Project
                /\ pls[j].Licenses = OwnLicenses(overrides[i])

NamedByOverride(project) ==
    \E i \in DOMAIN overrides : overrides[i].Project = project

\* C2: the final error list is the computed error list, in the same order
\* and with unchanged entries, minus every entry whose project is named by
\* some override entry, also when the project occurs both among the computed
\* confident attributions and among the computed errors.
C2_ErrorsMinusOverridden ==
    pc = "done" =>
        ne = SelectSeq(e, LAMBDA pl : ~NamedByOverride(pl.Project))

\* The single license entry of a package without a located file.
Placeholder ==
    [Path |-> <<>>, Score |-> [num |-> 0, den |-> 1], Template |-> 0,
     ExtraWords |-> <<>>, MissingWords |-> <<>>]

\* The package has no build error, is no standard package, and the locator
\* returns the empty-path placeholder for it.
LocatedNowhere(info) ==
    /\ info.Error = <<>>
    /\ info.ImportPath \notin StdSet
    /\ findLicenses(info, tree) = [paths |-> << <<>> >>, err |-> FALSE]

IsPlaceholderLicense(l) == l.Err = "" /\ l.LicenseInfos = <<Placeholder>>

\* C8, the step of listLicenses: the package gets the single placeholder
\* entry, and neither the cache nor the calls of the matcher change.
C8_ListedWithoutMatching ==
    (pc = "list" /\ pos <= Len(infos) /\ LocatedNowhere(infos[pos])) =>
        /\ licenses' = Append(licenses, [Package |-> infos[pos].ImportPath,
                                         LicenseInfos |-> <<Placeholder>>,
                                         Err |-> ""])
        /\ matched' = matched
        /\ matchCalls' = matchCalls

\* C8, the step of licensesToProjectAndLicenses: the package goes to the
\* error list as "No license detected", and not to the confident list.
C8_ReportedUndetected ==
    (pc = "convert" /\ cpos <= Len(kept) /\ IsPlaceholderLicense(kept[cpos])) =>
        /\ e' = Append(e, [Project |-> removeVendor(kept[cpos].Package),
                           Licenses |-> <<>>,
                           Error |-> "No license detected"])
        /\ c' = c

\* C8: a package for which the locator returns the empty-path placeholder is
\* never passed to the matcher; listLicenses gives it a single license entry
\* with score 0, no template and empty extra/missing word lists; grouping
\* leaves the entry alone; and it is reported in the error list with the
\* message "No license detected" and not in the confident list. The matcher
\* is only ever called with the path of a file.
C8_PlaceholderBypassesMatcher ==
    /\ [](\A k \in DOMAIN matchCalls :
             \A i \in DOMAIN infos : matchCalls[k] # FilePath(infos[i], <<>>))
    /\ [](pc \in {"convert", "done"} =>
             SelectSeq(kept, IsPlaceholderLicense)
                 = SelectSeq(licenses, IsPlaceholderLicense))
    /\ [][C8_ListedWithoutMatching /\ C8_ReportedUndetected]_vars

\* c/vendor/a has no license file up to the root while a has one that is
\* matched: c/vendor/a is listed with the placeholder and reported under its
\* project a as undetected.
C8_Witness ==
    /\ pc = "done"
    /\ \E k \in DOMAIN licenses :
           licenses[k] = [Package |-> <<"c", "/", "vendor", "/", "a">>,
                          LicenseInfos |-> <<Placeholder>>, Err |-> ""]
    /\ \E k \in DOMAIN ne :
           ne[k] = [Project |-> <<"a">>, Licenses |-> <<>>,
                    Error |-> "No license detected"]
    /\ Len(matchCalls) > 0
    /\ Len(c) > 0

\* The packages of the batch that listLicenses has passed and that it
\* records: the broken ones and those outside the standard library.
Recorded ==
    SelectSeq(SubSeq(infos, 1, pos - 1),
              LAMBDA info : info.Error # <<>> \/ info.ImportPath \notin StdSet)

LicensePaths(l) == [k \in DOMAIN l.LicenseInfos |-> l.LicenseInfos[k].Path]

\* C9, the step of listLicenses: the package is recorded with its error
\* string and a single empty-path entry, and the loop goes on.
C9_RecordedWithError ==
    (pc = "list" /\ pos <= Len(infos) /\ infos[pos].Error # <<>>) =>
        /\ licenses' = Append(licenses, [Package |-> infos[pos].Name,
                                         Err |-> infos[pos].Error[1],
                                         LicenseInfos |-> <<Placeholder>>])
        /\ pos' = pos + 1
        /\ pc' = "list"

\* C9, the step of licensesToProjectAndLicenses: the package goes to the
\* error list with its error string, and not to the confident list.
C9_ReportedWithError ==
    (pc = "convert" /\ cpos <= Len(kept) /\ kept[cpos].Err # "") =>
        /\ e' = Append(e, [Project |-> removeVendor(kept[cpos].Package),
                           Licenses |-> <<>>,
                           Error |-> kept[cpos].Err])
        /\ c' = c

\* C9: a package whose metadata carries a build error does not abort the
\* run; listLicenses records it with that error string and a single
\* empty-path license entry and processes every other package of the batch
\* as the locator dictates; grouping leaves the entry alone; and the package
\* is reported in the error list with the error string unchanged, never as
\* "No license detected" and never in the confident list.
C9_BuildErrorRecordedRunContinues ==
    /\ [](pc \in {"list", "convert", "done"} =>
             /\ Len(licenses) = Len(Recorded)
             /\ \A k \in DOMAIN licenses :
                   IF Recorded[k].Error # <<>>
                      THEN /\ licenses[k].Package = Recorded[k].Name
                           /\ licenses[k].Err = Recorded[k].Error[1]
                           /\ licenses[k].LicenseInfos = <<Placeholder>>
                      ELSE /\ licenses[k].Package = Recorded[k].ImportPath
                           /\ licenses[k].Err = ""
                           /\ LicensePaths(licenses[k])
                                  = findLicenses(Recorded[k], tree).paths)
    /\ [](pc \in {"convert", "done"} =>
             SelectSeq(kept, LAMBDA l : l.Err # "")
                 = SelectSeq(licenses, LAMBDA l : l.Err # ""))
    /\ [](infos # <<>> /\ infos[1].Error # <<>> => pc # "fatal")
    /\ [][C9_RecordedWithError /\ C9_ReportedWithError]_vars

\* a is broken and a/b, listed after it, has a license file that is matched:
\* a is reported with the error string of go list, a/b in the confident list.
C9_Witness ==
    /\ pc = "done"
    /\ Len(licenses) >= 2
    /\ licenses[1] = [Package |-> <<"a">>, Err |-> "cannot find package",
                      LicenseInfos |-> <<Placeholder>>]
    /\ licenses[2].Package = <<"a", "/", "b">>
    /\ licenses[2].LicenseInfos[1].Template = 1
    /\ \E k \in DOMAIN ne :
           ne[k] = [Project |-> <<"a">>, Licenses |-> <<>>,
                    Error |-> "cannot find package"]
    /\ \E k \in DOMAIN pls : pls[k].Project = <<"a", "/", "b">>

\* The result of a match as a license entry for path p carries it.
EntryOf(p, m) ==
    [Path |-> p, Score |-> m.Score, Template |-> m.Template,
     ExtraWords |-> m.ExtraWords, MissingWords |-> m.MissingWords]

\* The files that the packages processed so far list, as the absolute paths
\* the matcher reads.
ListedFiles ==
    UNION {{Recorded[k].Root \o <<"/", "src", "/">> \o licenses[k].LicenseInfos[j].Path :
               j \in {n \in DOMAIN licenses[k].LicenseInfos :
                         licenses[k].LicenseInfos[n].Path # <<>>}} :
             k \in DOMAIN licenses}

\* C14: over the packages processed in one run the matcher is invoked at
\* most once for each distinct license file path, exactly once for a path
\* that some processed package lists, and every license entry that refers to
\* the path, in whichever package, carries the score, template and word
\* lists of that invocation.
C14_MatchedOncePerPath ==
    (pc \in {"list", "convert", "done"} /\ Len(licenses) = Len(Recorded)) =>
        /\ \A i, j \in DOMAIN matchCalls : i # j => matchCalls[i] # matchCalls[j]
        /\ Range(matchCalls) = ListedFiles
        /\ DOMAIN matched = ListedFiles
        /\ \A k \in DOMAIN licenses :
              \A j \in DOMAIN licenses[k].LicenseInfos :
                  LET li == licenses[k].LicenseInfos[j]
                      f  == Recorded[k].Root \o <<"/", "src", "/">> \o li.Path
                  IN  li.Path # <<>> => li = EntryOf(li.Path, matched[f])

\* a has two license files and a/b none of its own: four license entries,
\* two calls of the matcher.
C14_Witness ==
    /\ pc = "done"
    /\ Len(licenses) >= 2
    /\ licenses[1].Package = <<"a">>
    /\ licenses[2].Package = <<"a", "/", "b">>
    /\ Len(licenses[1].LicenseInfos) = 2
    /\ licenses[2].LicenseInfos = licenses[1].LicenseInfos
    /\ licenses[1].LicenseInfos[1].Score = [num |-> 2, den |-> 3]
    /\ matchCalls = << <<"/", "go", "/", "src", "/", "a", "/", "COPYING">>,
                       <<"/", "go", "/", "src", "/", "a", "/", "LICENSE">> >>

\* C10: every confidence that pkgsToLicenses emits is the match score
\* truncated to three decimal digits, so it has at most three decimal digits
\* (the forced confidence 1.0 of an override has none).
C10_ConfidencesTruncated ==
    pc = "done" =>
        \A j \in DOMAIN pls :
            \A k \in DOMAIN pls[j].Licenses :
                pls[j].Licenses[k].Confidence
                    = truncateFloat(pls[j].Licenses[k].Confidence)

====
